---- MODULE Spec2Model ----
(***************************************************************************)
(* The object-state engine of gibson2: the state registry and its          *)
(* dependency order (object_states/factory.py), the per-object state map    *)
(* built by prepare_object_states, the scene's object index                 *)
(* (scenes/igibson_indoor_scene.py), the step loop and scheduler pass of    *)
(* the Simulator (simulator.py), and the Dirty / Stained / ContactBodies    *)
(* states.                                                                  *)
(*                                                                          *)
(* Python values are modelled as follows.  A state name is a string         *)
(* ("aabb").  A state class object is a different value from every string;  *)
(* it is written with the class's own name ("AABB").  A dict is a function  *)
(* whose domain is its key set.  A list is a sequence.                      *)
(***************************************************************************)
EXTENDS Integers, Sequences, FiniteSets, TLC

Range(s) == {s[k] : k \in DOMAIN s}

RECURSIVE Reverse(_)
Reverse(s) == IF s = <<>> THEN <<>> ELSE Append(Reverse(Tail(s)), Head(s))

EmptyDict == [x \in {} |-> 0]

StateNames == {"aabb", "contact_bodies", "inside", "soaked", "dirty", "stained",
               "cleaning_tool", "A", "B"}

DictSet(d, k, v) == [x \in (DOMAIN d) \cup {k} |-> IF x = k THEN v ELSE d[x]]

\* all orderings of a finite set, as sequences (iteration orders of a set)
RECURSIVE Orderings(_)
Orderings(S) ==
    IF S = {} THEN {<<>>}
    ELSE UNION {{<<x>> \o t : t \in Orderings(S \ {x})} : x \in S}

(***************************************************************************)
(* The registry (factory.py).  The model keeps the registered states that   *)
(* the modelled classes name; a configuration is the restriction of the     *)
(* tables to a dependency-closed set of names.                              *)
(***************************************************************************)
STATE_NAME_TO_CLASS_MAPPING ==
    [aabb |-> "AABB", contact_bodies |-> "ContactBodies", inside |-> "Inside",
     soaked |-> "Soaked", dirty |-> "Dirty", stained |-> "Stained",
     cleaning_tool |-> "CleaningTool"]

ABILITY_TO_STATE_MAPPING ==
    [soakable |-> <<"soaked">>, dustable |-> <<"dirty">>,
     scrubbable |-> <<"stained">>, cleaning_tool |-> <<"cleaning_tool">>]

DEFAULT_STATE_SET == {"inside"}

\* Dirty.get_dependencies / get_optional_dependencies: state names
Dirty_get_dependencies == <<"aabb">>
Dirty_get_optional_dependencies == <<"cleaning_tool">>

\* Stained.get_dependencies / get_optional_dependencies: class objects
Stained_get_dependencies == <<"AABB">>
Stained_get_optional_dependencies == <<"Soaked", "CleaningTool">>

\* KinematicsMixin (base of Inside): the spatial states its predicate and
\* its placement read
Kinematics_get_dependencies == <<"aabb", "contact_bodies">>

get_dependencies(cls) ==
    CASE cls = "Dirty" -> Dirty_get_dependencies
      [] cls = "Stained" -> Stained_get_dependencies
      [] cls = "Inside" -> Kinematics_get_dependencies
      [] OTHER -> <<>>

get_optional_dependencies(cls) ==
    CASE cls = "Dirty" -> Dirty_get_optional_dependencies
      [] cls = "Stained" -> Stained_get_optional_dependencies
      [] OTHER -> <<>>

\* the class objects that are cacheable states (CachingEnabledObjectState)
CachedClasses == {"AABB", "ContactBodies"}

\* the registry restricted to the names S
SourceConfig(S) ==
    [names |-> S,
     cls |-> [n \in S |-> STATE_NAME_TO_CLASS_MAPPING[n]],
     req |-> [n \in S |-> get_dependencies(STATE_NAME_TO_CLASS_MAPPING[n])],
     opt |-> [n \in S |-> get_optional_dependencies(STATE_NAME_TO_CLASS_MAPPING[n])],
     defaults |-> DEFAULT_STATE_SET \cap S,
     abilities |-> {a \in DOMAIN ABILITY_TO_STATE_MAPPING :
                        Range(ABILITY_TO_STATE_MAPPING[a]) \subseteq S}]

\* an artificial registry with a cycle: A depends on B and B depends on A
CyclicConfig ==
    [names |-> {"A", "B"},
     cls |-> [n \in {"A", "B"} |-> IF n = "A" THEN "ClsA" ELSE "ClsB"],
     req |-> [n \in {"A", "B"} |-> IF n = "A" THEN <<"B">> ELSE <<>>],
     opt |-> [n \in {"A", "B"} |-> IF n = "B" THEN <<"A">> ELSE <<>>],
     defaults |-> {"A"},
     abilities |-> {}]

KinematicConfig == SourceConfig({"aabb", "contact_bodies", "inside"})
DustConfig == SourceConfig({"aabb", "contact_bodies", "inside", "cleaning_tool", "dirty"})
StainConfig == SourceConfig({"aabb", "dirty", "stained"})
SoakConfig == SourceConfig({"aabb", "contact_bodies", "inside", "cleaning_tool", "soaked"})
ParticleConfig == SourceConfig({"aabb", "cleaning_tool", "soaked", "dirty", "stained"})

FullConfig == SourceConfig(DOMAIN STATE_NAME_TO_CLASS_MAPPING)

\* an artificial registry in which the default state A requires the state
\* that the ability dustable maps to
OverlapConfig ==
    [names |-> {"A", "dirty"},
     cls |-> [n \in {"A", "dirty"} |-> IF n = "A" THEN "ClsA" ELSE "Dirty"],
     req |-> [n \in {"A", "dirty"} |-> IF n = "A" THEN <<"dirty">> ELSE <<>>],
     opt |-> [n \in {"A", "dirty"} |-> <<>>],
     defaults |-> {"A"},
     abilities |-> {"dustable"}]

\* the registries each specification starts from
OrderConfigs == {KinematicConfig, DustConfig, StainConfig, ParticleConfig, CyclicConfig}
PrepareConfigs == {KinematicConfig, DustConfig, StainConfig, SoakConfig}
SimConfigs == {KinematicConfig, DustConfig, CyclicConfig}
StainConfigs == {StainConfig}
CleanConfigs == {FullConfig}
FactoryConfigs == PrepareConfigs \cup {CyclicConfig, OverlapConfig}

(***************************************************************************)
(* get_state_dependency_graph / get_states_by_dependency_order              *)
(***************************************************************************)
\* the adjacency lists handed to nx.DiGraph: required then optional
Dependencies(c) == [n \in c.names |-> c.req[n] \o c.opt[n]]

\* nx.DiGraph(dependencies): the keys and every listed neighbour are nodes
GraphNodes(c) == c.names \cup UNION {Range(Dependencies(c)[n]) : n \in c.names}

GraphEdge(c, u, v) == u \in c.names /\ v \in Range(Dependencies(c)[u])

\* nodes the topological_sort generator may yield next: every predecessor
\* (every state that lists the node) has been yielded
TopoReady(c, done) ==
    {v \in GraphNodes(c) \ Range(done) :
        \A u \in GraphNodes(c) : GraphEdge(c, u, v) => u \in Range(done)}

\* the registered state a dependency identifier denotes: the name itself,
\* or the name whose class the identifier is
RegisteredAs(c, d) == {n \in c.names : n = d \/ c.cls[n] = d}

\* the nodes reachable from v along one or more edges
RECURSIVE ReachFrom(_, _, _)
ReachFrom(c, seen, frontier) ==
    LET next == {w \in GraphNodes(c) : \E u \in frontier : GraphEdge(c, u, w)}
    IN IF next \subseteq seen THEN seen
       ELSE ReachFrom(c, seen \cup next, next \ seen)

HasCycle(c) == \E v \in GraphNodes(c) : v \in ReachFrom(c, {}, {v})

(***************************************************************************)
(* Bounds of the model                                                      *)
(***************************************************************************)
Objs == {<<"o", 1>>, <<"o", 2>>}
NumParticles == 2
NumDust == 10
MaxSubsteps == 2
MaxAbilities == 1
MaxPrepCalls == 2
MaxWork == 12
MaxCoord == 3
MaxAttempts == 2

(***************************************************************************)
(* get_object_state_instance / prepare_object_states                        *)
(***************************************************************************)
\* parameters handed to a state constructor: the empty dict, or the
\* parameter dict of an ability (identified by the ability)
NoParams == "{}"

\* a variant in which the dust of a new Dirty state is active
NewInstanceDusty(cls, params) ==
    CASE cls \in CachedClasses ->
            [cls |-> cls, params |-> params,
             valid |-> FALSE, old |-> FALSE, cache |-> 0]
      [] cls = "Dirty" ->
            [cls |-> cls, params |-> params, value |-> FALSE,
             active |-> 1..NumDust, num |-> NumDust]
      [] cls = "Stained" ->
            [cls |-> cls, params |-> params, value |-> FALSE,
             prev_value |-> FALSE, loaded |-> FALSE, active |-> {}, num |-> 0]
      [] cls = "Soaked" ->
            [cls |-> cls, params |-> params, value |-> FALSE]
      [] OTHER -> [cls |-> cls, params |-> params]

\* a state instance as constructed (Dirty.__init__, Stained.__init__,
\* CachingEnabledObjectState.__init__)
NewInstance(cls, params) ==
    CASE cls \in CachedClasses ->
            [cls |-> cls, params |-> params,
             valid |-> FALSE, old |-> FALSE, cache |-> 0]
      [] cls = "Dirty" ->
            [cls |-> cls, params |-> params, value |-> FALSE, active |-> {},
             num |-> NumDust]
      [] cls = "Stained" ->
            [cls |-> cls, params |-> params, value |-> FALSE,
             prev_value |-> FALSE, loaded |-> FALSE, active |-> {}, num |-> 0]
      [] cls = "Soaked" ->
            [cls |-> cls, params |-> params, value |-> FALSE]
      [] OTHER -> [cls |-> cls, params |-> params]

\* Python values in the work-list: (state_name, params) tuples; a
\* dependency identifier is a bare str or class object
PyTuple(n, p) == [ty |-> "tuple", name |-> n, params |-> p]
PyAtom(d) == [ty |-> "atom", name |-> d, params |-> NoParams]
PyIn(x, list) == \E k \in DOMAIN list : list[k] = x

\* line 144-146: append each dependency that is "not in" the work-list
RECURSIVE AppendDependencies(_, _)
AppendDependencies(wl, deps) ==
    IF deps = <<>> THEN wl
    ELSE AppendDependencies(
            IF ~PyIn(PyAtom(Head(deps)), wl)
            THEN Append(wl, PyTuple(Head(deps), NoParams)) ELSE wl,
            Tail(deps))

\* lines 133-137: defaults (in the set's iteration order), then the states
\* of each ability with that ability's parameters
RECURSIVE AbilityItems(_)
AbilityItems(abilities) ==
    IF abilities = <<>> THEN <<>>
    ELSE [k \in DOMAIN ABILITY_TO_STATE_MAPPING[Head(abilities)] |->
             PyTuple(ABILITY_TO_STATE_MAPPING[Head(abilities)][k], Head(abilities))]
         \o AbilityItems(Tail(abilities))

InitialWorkList(defaultOrder, abilities) ==
    [k \in DOMAIN defaultOrder |-> PyTuple(defaultOrder[k], NoParams)]
    \o AbilityItems(abilities)

\* a variant that looks at the online flag before it looks the name up
get_object_state_instance_unchecked(c, state_name, params, online) ==
    IF ~online
    THEN [result |-> "none", inst |-> NewInstance("DummyState", NoParams)]
    ELSE IF state_name \notin c.names
    THEN [result |-> "AssertionError", inst |-> NewInstance("None", NoParams)]
    ELSE [result |-> "none", inst |-> NewInstance(c.cls[state_name], params)]

\* get_object_state_instance(state_name, obj, params, online), lines 101-112
get_object_state_instance(c, state_name, params, online) ==
    IF state_name \notin c.names
    THEN [result |-> "AssertionError", inst |-> NewInstance("None", NoParams)]
    ELSE IF ~online
    THEN [result |-> "none", inst |-> NewInstance("DummyState", NoParams)]
    ELSE [result |-> "none", inst |-> NewInstance(c.cls[state_name], params)]

\* get_state_names_for_ability(ability), line 82: a dict lookup
get_state_names_for_ability(c, ability) ==
    IF ability \notin c.abilities
    THEN [result |-> "KeyError", names |-> <<>>]
    ELSE [result |-> "none", names |-> ABILITY_TO_STATE_MAPPING[ability]]

\* a variant of the loop that appends the optional dependencies too
RECURSIVE PrepareLoopWithOptional(_, _, _, _, _)
PrepareLoopWithOptional(c, wl, i, states, n) ==
    IF i > Len(wl) THEN [status |-> "ok", states |-> states, count |-> n]
    ELSE IF n >= MaxWork THEN [status |-> "hang", states |-> states, count |-> n]
    ELSE IF get_object_state_instance(c, wl[i].name, wl[i].params, TRUE).result # "none"
         THEN [status |-> "error", states |-> states, count |-> n]
    ELSE PrepareLoopWithOptional(c,
            AppendDependencies(wl, c.req[wl[i].name] \o c.opt[wl[i].name]),
            i + 1,
            DictSet(states, wl[i].name,
                    get_object_state_instance(c, wl[i].name, wl[i].params, TRUE).inst),
            n + 1)

\* lines 139-146: the loop over the growing work-list.  Line 141 calls
\* get_object_state_instance(state_name, obj, params): online is left at
\* its default.  The result is the
\* dict left in obj.states and how the call ended: "ok", "error" (the
\* assertion of get_object_state_instance, line 101-102) or "hang" (the
\* work-list grows without end)
RECURSIVE PrepareLoop(_, _, _, _, _)
PrepareLoop(c, wl, i, states, n) ==
    IF i > Len(wl) THEN [status |-> "ok", states |-> states, count |-> n]
    ELSE IF n >= MaxWork THEN [status |-> "hang", states |-> states, count |-> n]
    ELSE IF get_object_state_instance(c, wl[i].name, wl[i].params, TRUE).result # "none"
         THEN [status |-> "error", states |-> states, count |-> n]
    ELSE PrepareLoop(c,
            AppendDependencies(wl, c.req[wl[i].name]),
            i + 1,
            DictSet(states, wl[i].name,
                    get_object_state_instance(c, wl[i].name, wl[i].params, TRUE).inst),
            n + 1)

\* a variant that keeps the instances obj.states already holds out of the
\* new dict
prepare_skipping_existing(c, old, defaultOrder, abilities, online) ==
    LET r == PrepareLoop(c, InitialWorkList(defaultOrder, abilities), 1, EmptyDict, 0)
    IN [r EXCEPT !.states = [n \in DOMAIN r.states \ DOMAIN old |-> r.states[n]]]

\* prepare_object_states(obj, abilities, online): old is the dict
\* obj.states held before the call (line 139 replaces it)
prepare_object_states(c, old, defaultOrder, abilities, online) ==
    PrepareLoop(c, InitialWorkList(defaultOrder, abilities), 1, EmptyDict, 0)

\* the ability dicts a caller may pass: distinct known abilities, in
\* insertion order
AbilityInputs(c) ==
    {s \in UNION {[1..k -> c.abilities] : k \in 0..MaxAbilities} :
        \A a, b \in DOMAIN s : a # b => s[a] # s[b]}

(***************************************************************************)
(* State                                                                    *)
(***************************************************************************)
VARIABLES
    cfg,                 \* the registry the process runs with
    initPc,              \* Simulator.__init__: "new", "sorting", "ready", "error"
    yielded,             \* what nx.topological_sort has yielded so far
    object_state_names,  \* Simulator.object_state_names (line 150)
    objStates,           \* obj.states of every object
    prep,                \* per object: its last prepare_object_states call (the
                         \* keys of the abilities dict, how it ended) and the
                         \* one before
    objects_by_name,     \* scene.objects_by_name, in insertion order
    objects_by_state,    \* scene.objects_by_state
    place,               \* where the physics engine has each object
    tick,                \* what happened in the running step (observer)
    result,              \* the exception the last call raised, or "none"
    aabbA, aabbB,        \* the boxes Inside.get_value reads (lines 27-28)
    inflated,            \* the box the sweep of Dirty/Stained tests against
    inside_value         \* what it returned for them: "True", "False", or
                         \* "unset" before it has returned

vars == <<cfg, initPc, yielded, object_state_names, objStates, prep,
          objects_by_name, objects_by_state, place, tick, result,
          aabbA, aabbB, inside_value, inflated>>
queryVars == <<aabbA, aabbB, inside_value, inflated>>

sceneVars == <<objects_by_name, objects_by_state, place>>
initVars == <<initPc, yielded, object_state_names>>

\* the particle objects of the stain of an object
StainParticle(o, k) == <<"p", o[2], k>>
ParticleObjs == {StainParticle(o, k) : o \in Objs, k \in 1..NumParticles}
AllObjs == Objs \cup ParticleObjs

NoPrep == [status |-> "none", abilities |-> {}, online |-> TRUE, calls |-> 0,
           count |-> 0,
           prevStatus |-> "none", prevAbilities |-> {}, prevKeys |-> {}]

\* no call of Inside.set_value or Inside.get_value has been made
NoCall == [op |-> "none", new_value |-> FALSE, sampled |-> FALSE, tried |-> 0,
           returned |-> "unset"]

NewTick == [passes |-> 0, physicsAfterPass |-> FALSE, syncs |-> 0,
            hooked |-> {}, hookCalls |-> 0, added |-> {},
            observedAdded |-> FALSE,
            invalidatedLate |-> FALSE, unmetDependency |-> FALSE,
            staleRead |-> FALSE, cleaned |-> {}, call |-> NoCall]

\* the boxes of a run in which Inside.get_value is not asked about boxes
NoBox == [lo |-> <<0, 0, 0>>, hi |-> <<0, 0, 0>>]
NoQuery ==
    /\ aabbA = NoBox /\ aabbB = NoBox
    /\ inside_value = "unset"
    /\ inflated = NoBox

InitState(configs) ==
    /\ cfg \in configs
    /\ initPc = "new"
    /\ yielded = <<>>
    /\ object_state_names = <<>>
    /\ objStates = [o \in AllObjs |-> EmptyDict]
    /\ prep = [o \in Objs |-> NoPrep]
    /\ objects_by_name = <<>>
    /\ objects_by_state = EmptyDict
    /\ place = [o \in Objs |-> 1]
    /\ tick = NewTick
    /\ result = "none"

InitWith(configs) ==
    /\ InitState(configs)
    /\ NoQuery

\* nothing else runs while a constructor or a step is running
Idle == initPc # "sorting"

(***************************************************************************)
(* Simulator.__init__, line 150: get_states_by_dependency_order()           *)
(***************************************************************************)
\* a variant that returns the list in the generator's order
topological_sort_unreversed(sorted) == sorted

\* the list built from the generator once it is exhausted
get_states_by_dependency_order(sorted) == Reverse(sorted)

\* the generator run to exhaustion in one of the orders it may take
RECURSIVE TopoSortFirst(_, _)
TopoSortFirst(c, done) ==
    IF TopoReady(c, done) = {} THEN done
    ELSE TopoSortFirst(c, Append(done, CHOOSE v \in TopoReady(c, done) : TRUE))

\* Simulator.__init__ as one step, for a registry without a cycle
SimulatorInitSorted ==
    /\ initPc = "new"
    /\ \E sorted \in {TopoSortFirst(cfg, <<>>)} :
          /\ Range(sorted) = GraphNodes(cfg)
          /\ yielded' = sorted
          /\ object_state_names' = get_states_by_dependency_order(sorted)
    /\ initPc' = "ready"
    /\ UNCHANGED <<queryVars, cfg, objStates, prep, sceneVars>>
    /\ tick' = NewTick
    /\ result' = "none"

SimulatorInit ==
    /\ initPc = "new"
    /\ initPc' = "sorting"
    /\ UNCHANGED <<queryVars, cfg, yielded, object_state_names, objStates, prep,
                   sceneVars>>
    /\ tick' = NewTick
    /\ result' = "none"

\* topological_sort yields one more node
TopoYield ==
    /\ initPc = "sorting"
    /\ \E v \in TopoReady(cfg, yielded) : yielded' = Append(yielded, v)
    /\ UNCHANGED <<queryVars, cfg, initPc, object_state_names, objStates, prep,
                   sceneVars>>
    /\ tick' = NewTick
    /\ result' = "none"

\* the generator is exhausted: the reversed list is stored
TopoDone ==
    /\ initPc = "sorting"
    /\ Range(yielded) = GraphNodes(cfg)
    /\ object_state_names' = get_states_by_dependency_order(yielded)
    /\ initPc' = "ready"
    /\ UNCHANGED <<queryVars, cfg, yielded, objStates, prep, sceneVars>>
    /\ tick' = NewTick
    /\ result' = "none"

\* no node is ready but some remain: NetworkXUnfeasible leaves __init__
TopoFail ==
    /\ initPc = "sorting"
    /\ Range(yielded) # GraphNodes(cfg)
    /\ TopoReady(cfg, yielded) = {}
    /\ initPc' = "error"
    /\ UNCHANGED <<queryVars, cfg, yielded, object_state_names, objStates, prep,
                   sceneVars>>
    /\ tick' = NewTick
    /\ result' = "NetworkXUnfeasible"

(***************************************************************************)
(* Calls of prepare_object_states                                           *)
(***************************************************************************)
PrepRecord(o, abilities, online, r) ==
    [status |-> r.status, abilities |-> Range(abilities), online |-> online,
     calls |-> prep[o].calls + 1,
     count |-> r.count,
     prevStatus |-> prep[o].status, prevAbilities |-> prep[o].abilities,
     prevKeys |-> DOMAIN objStates[o]]

DoPrepareAs(o, abilities, online) ==
    \E defaultOrder \in Orderings(cfg.defaults) :
        \E r \in {prepare_object_states(cfg, objStates[o], defaultOrder, abilities,
                                        online)} :
           /\ objStates' = [objStates EXCEPT ![o] = r.states]
           /\ prep' = [prep EXCEPT ![o] = PrepRecord(o, abilities, online, r)]
           /\ result' = IF r.status = "error" THEN "AssertionError" ELSE "none"

\* the call with online left at its default
DoPrepare(o, abilities) == DoPrepareAs(o, abilities, TRUE)

\* an object is constructed with one of the ability dicts `inputs`: its
\* constructor prepares its states
ConstructWith(o, inputs) ==
    /\ Idle
    /\ prep[o].calls = 0
    /\ \A q \in Objs : q[2] < o[2] => prep[q].calls > 0
    /\ \E abilities \in inputs : DoPrepare(o, abilities)
    /\ UNCHANGED <<queryVars, cfg, initVars, sceneVars>>
    /\ tick' = NewTick

ConstructObject(o) == ConstructWith(o, AbilityInputs(cfg))

\* the ability dicts of an object that can be soiled (it may be a cleaning
\* tool as well), and of a cleaner
SoiledInputs ==
    UNION {Orderings(S) : S \in SUBSET {"dustable", "scrubbable"}}
        \cup {<<"dustable", "cleaning_tool">>}
ToolInputs == UNION {Orderings(S) : S \in SUBSET {"cleaning_tool", "soakable"}}

ConstructSoiled == ConstructWith(<<"o", 1>>, SoiledInputs)
ConstructTool == ConstructWith(<<"o", 2>>, ToolInputs)

\* prepare_object_states is called again on an object that is not in a scene
PrepareAgain(o) ==
    /\ Idle
    /\ prep[o].calls \in 1..(MaxPrepCalls - 1)
    /\ ~PyIn(o, objects_by_name)
    /\ \E abilities \in AbilityInputs(cfg) : DoPrepare(o, abilities)
    /\ UNCHANGED <<queryVars, cfg, initVars, sceneVars>>
    /\ tick' = NewTick

\* prepare_object_states(obj, abilities, online=False) on a new object
PrepareOffline(o) ==
    /\ Idle
    /\ prep[o].calls = 0
    /\ \A q \in Objs : q[2] < o[2] => prep[q].calls > 0
    /\ \E abilities \in AbilityInputs(cfg) : DoPrepareAs(o, abilities, FALSE)
    /\ UNCHANGED <<queryVars, cfg, initVars, sceneVars>>
    /\ tick' = NewTick

\* the identifiers and abilities a caller may look up: the registered ones,
\* a class object, and names that no table holds
LookupNames == StateNames \cup {"AABB", "flying"}
LookupAbilities == DOMAIN ABILITY_TO_STATE_MAPPING \cup {"flyable"}

\* a call of get_object_state_instance
LookupState(state_name, online) ==
    /\ Idle
    /\ \E r \in {get_object_state_instance(cfg, state_name, NoParams, online)} :
          /\ result' = r.result
          /\ tick' = [NewTick EXCEPT !.call =
                         [op |-> "get_object_state_instance", arg |-> state_name,
                          online |-> online,
                          returned |-> IF r.result = "none" THEN r.inst.cls
                                       ELSE "unset"]]
    /\ UNCHANGED <<queryVars, cfg, initVars, objStates, prep, sceneVars>>

\* a call of get_state_names_for_ability
LookupAbility(ability) ==
    /\ Idle
    /\ \E r \in {get_state_names_for_ability(cfg, ability)} :
          /\ result' = r.result
          /\ tick' = [NewTick EXCEPT !.call =
                         [op |-> "get_state_names_for_ability", arg |-> ability,
                          online |-> TRUE,
                          returned |-> IF r.result = "none" THEN "list"
                                       ELSE "unset"]]
    /\ UNCHANGED <<queryVars, cfg, initVars, objStates, prep, sceneVars>>

(***************************************************************************)
(* Geometry: bounding boxes and particle positions, in 1/1000 units         *)
(***************************************************************************)
Boxes == << [lo |-> <<1000, 1000, 1000>>, hi |-> <<1100, 1100, 1100>>],
            [lo |-> <<0, 0, 0>>, hi |-> <<100, 100, 100>>] >>

\* a box whose inflated form holds the first particle position only
EdgeBox == [lo |-> <<0 - 95, 0, 0>>, hi |-> <<5, 100, 100>>]

\* a small box within the second of Boxes
InnerBox == [lo |-> <<40, 40, 40>>, hi |-> <<60, 60, 60>>]

\* the places an object may be at, and the box it has there
Places == <<Boxes[1], Boxes[2], EdgeBox, InnerBox>>

ParticlePos(k) == <<10 * k, 50, 50>>
StashPos == <<0 - 5000, 0 - 5000, 0 - 5000>>

(***************************************************************************)
(* The scene index (igibson_indoor_scene.py)                                *)
(***************************************************************************)
\* a variant that starts the list of a state anew at each addition
add_object_resetting(w, o) ==
    LET keys == DOMAIN w.st[o]
    IN [w EXCEPT
          !.by_name = Append(@, o),
          !.by_state = [n \in (DOMAIN @) \cup keys |->
                           IF n \in keys THEN <<o>> ELSE @[n]]]

\* _add_object, lines 413 and 418-423
add_object(w, o) ==
    LET keys == DOMAIN w.st[o]
    IN [w EXCEPT
          !.by_name = Append(@, o),
          !.by_state = [n \in (DOMAIN @) \cup keys |->
                           IF n \in keys
                           THEN Append(IF n \in DOMAIN @ THEN @[n] ELSE <<>>, o)
                           ELSE @[n]]]

get_objects(w) == w.by_name

get_objects_with_state(w, state) ==
    IF state \in DOMAIN w.by_state THEN w.by_state[state] ELSE <<>>

World == [st |-> objStates, by_name |-> objects_by_name,
          by_state |-> objects_by_state, tk |-> tick, raised |-> FALSE]

\* Simulator.import_object of an object on which prepare_object_states has
\* been called; when that call raised, obj.states is the dict built up to
\* the failing instantiation (lines 139-141)
AddObjectAt(o, places) ==
    /\ Idle
    /\ initPc = "ready"
    /\ prep[o].calls > 0
    /\ ~PyIn(o, objects_by_name)
    /\ \A q \in Objs : q[2] < o[2] => PyIn(q, objects_by_name)
    /\ \E w \in {add_object(World, o)} :
          /\ objects_by_name' = w.by_name
          /\ objects_by_state' = w.by_state
    /\ \E b \in places : place' = [place EXCEPT ![o] = b]
    /\ UNCHANGED <<queryVars, cfg, initVars, objStates, prep>>
    /\ tick' = NewTick
    /\ result' = "none"

\* an object that is no cleaning tool is put at the far box
AddObject(o) ==
    AddObjectAt(o, IF "cleaning_tool" \in DOMAIN objStates[o]
                   THEN DOMAIN Boxes ELSE {1})

\* the same with the cleaner at the far box, over the particles, or at
\* their edge
CleanerPlaces == {b \in DOMAIN Places : Places[b] \in Range(Boxes) \cup {EdgeBox}}
AddObjectNear(o) ==
    AddObjectAt(o, IF "cleaning_tool" \in DOMAIN objStates[o]
                   THEN CleanerPlaces ELSE {1})

\* the poses of the objects that are placed in one another: the far box,
\* the second box, and the small box within it
PlacePoses == {b \in DOMAIN Places : Places[b] \in Range(Boxes) \cup {InnerBox}}

\* the same with the object at any of these
AddObjectAnywhere(o) == AddObjectAt(o, PlacePoses)

\* dirty.py 42-48 / stained.py 59-65: the box after "inflate aabb"
InflatedMin(min, max) == min - (max - min) \div 10
InflatedMax(min, max) == max + (max - InflatedMin(min, max)) \div 10

\* the six bounds the test of dirty.py 50-51 / stained.py 67-68 compares with
InflatedBox(aabb) ==
    [lo |-> [a \in 1..3 |-> InflatedMin(aabb.lo[a], aabb.hi[a])],
     hi |-> [a \in 1..3 |-> InflatedMax(aabb.lo[a], aabb.hi[a])]]

\* dirty.py 50-51 / stained.py 67-68
InInflated(pos, aabb) ==
    \A a \in 1..3 :
        /\ pos[a] > InflatedMin(aabb.lo[a], aabb.hi[a])
        /\ pos[a] < InflatedMax(aabb.lo[a], aabb.hi[a])

(***************************************************************************)
(* Cacheable states (CachingEnabledObjectState; ContactBodies)              *)
(***************************************************************************)
\* get_value: the memoized value if valid, else compute, store, mark valid
CachedGetValue(inst, truth) ==
    IF inst.valid THEN inst
    ELSE [inst EXCEPT !.valid = TRUE, !.cache = truth, !.old = FALSE]

\* clear_cached_value; the update hook of a cacheable state calls it
clear_cached_value(inst) == [inst EXCEPT !.valid = FALSE, !.cache = 0, !.old = FALSE]

\* a variant that stores the value handed in
ContactBodies_store_value(inst, new_value) ==
    [result |-> "none",
     inst |-> [inst EXCEPT !.valid = TRUE, !.cache = IF new_value THEN 1 ELSE 2]]

\* ContactBodies.set_value
ContactBodies_set_value(inst, new_value) ==
    [result |-> "NotImplementedError", inst |-> inst]

\* a read of a cacheable state of object o made while the world is w
ReadCached(w, o, name) ==
    LET inst == CachedGetValue(w.st[o][name], place[o])
    IN [w EXCEPT !.st[o][name] = inst,
                 !.tk.staleRead = @ \/ inst.old]

(***************************************************************************)
(* Dirty and Stained                                                        *)
(***************************************************************************)
AllParticles == 1..NumParticles
DustParticles == 1..NumDust

\* a variant whose comparison is not strict
AtThreshold(active, num) == 10 * Cardinality(active) >= 9 * num

\* value = num_active > num * CLEAN_THRESHOLD, CLEAN_THRESHOLD = 0.9
AboveThreshold(active, num) == 10 * Cardinality(active) > 9 * num

PositionOf(k, active) == IF k \in active THEN ParticlePos(k) ELSE StashPos

\* a variant that allocates a dust population at each activation
Dirty_set_value_allocating(inst, new_value) ==
    [result |-> "none",
     inst |-> [inst EXCEPT !.value = new_value,
                           !.active = IF new_value THEN DustParticles ELSE {},
                           !.num = IF new_value THEN @ + NumDust ELSE @]]

\* Dirty.set_value
Dirty_set_value(inst, new_value) ==
    [result |-> "none",
     inst |-> [inst EXCEPT !.value = new_value,
                           !.active = IF new_value THEN DustParticles ELSE {}]]

\* Stained.set_value: self.stain is None until the first update loads it
Stained_set_value(inst, new_value) ==
    IF ~new_value /\ ~inst.loaded
    THEN [result |-> "AttributeError", inst |-> [inst EXCEPT !.value = new_value]]
    ELSE [result |-> "none",
          inst |-> [inst EXCEPT !.value = new_value,
                                !.active = IF new_value THEN @ ELSE {}]]

\* a variant in which a sweep brings the stashed particles it does not
\* cover back
SweepReactivating(aabb, swept, active) ==
    {k \in swept : ~InInflated(ParticlePos(k), aabb)}

\* a variant in which a cleaner stashes nothing
SweepStashingNone(aabb, swept, active) == active

\* the particles of `swept` left active after the sweep with one cleaner
SweepWith(aabb, swept, active) ==
    {k \in active : ~(k \in swept /\ InInflated(PositionOf(k, active), aabb))}

\* Dirty.update, lines 30-52: the loop over the cleaning tools
RECURSIVE DirtySweep(_, _, _, _)
DirtySweep(w, o, tools, k) ==
    IF k > Len(tools) \/ w.raised THEN w
    ELSE IF "aabb" \notin DOMAIN w.st[tools[k]]
         THEN [w EXCEPT !.raised = TRUE]
    ELSE LET w1 == ReadCached(w, tools[k], "aabb")
             aabb == Places[w1.st[tools[k]]["aabb"].cache]
         IN DirtySweep(
               [w1 EXCEPT !.st[o]["dirty"].active =
                              SweepWith(aabb, DustParticles, @),
                          !.tk.cleaned =
                              IF SweepWith(aabb, DustParticles,
                                           w1.st[o]["dirty"].active)
                                    # w1.st[o]["dirty"].active
                              THEN @ \cup {<<o, "dirty">>} ELSE @],
               o, tools, k + 1)

Dirty_update(w, o) ==
    LET w1 == DirtySweep(w, o, get_objects_with_state(w, "cleaning_tool"), 1)
    IN IF w1.raised THEN w1
       ELSE [w1 EXCEPT !.st[o]["dirty"].value =
                           AboveThreshold(w1.st[o]["dirty"].active,
                                          w1.st[o]["dirty"].num)]

\* Simulator.import_particle_system: every particle is imported as an object
RECURSIVE import_particle_system(_, _, _)
import_particle_system(w, o, k) ==
    IF k > NumParticles THEN w
    ELSE import_particle_system(
            [add_object(w, StainParticle(o, k)) EXCEPT
                !.tk.added = @ \cup {StainParticle(o, k)}],
            o, k + 1)

\* Stained.update, lines 42-46: the cleaning tools that are soaked
RECURSIVE WetTools(_, _, _)
WetTools(w, tools, k) ==
    IF k > Len(tools) THEN <<>>
    ELSE (IF "Soaked" \in DOMAIN w.st[tools[k]] /\ w.st[tools[k]]["Soaked"].value
          THEN <<tools[k]>> ELSE <<>>) \o WetTools(w, tools, k + 1)

\* Stained.update, lines 48-69
RECURSIVE StainedSweep(_, _, _, _)
StainedSweep(w, o, tools, k) ==
    IF k > Len(tools) \/ w.raised THEN w
    ELSE IF w.st[o]["stained"].active = {} THEN StainedSweep(w, o, tools, k + 1)
    ELSE IF "AABB" \notin DOMAIN w.st[tools[k]]
         THEN [w EXCEPT !.raised = TRUE]
    ELSE LET w1 == ReadCached(w, tools[k], "AABB")
             aabb == Places[w1.st[tools[k]]["AABB"].cache]
         IN StainedSweep(
               [w1 EXCEPT !.st[o]["stained"].active =
                              SweepWith(aabb, @, @),
                          !.tk.cleaned =
                              IF SweepWith(aabb, w1.st[o]["stained"].active,
                                           w1.st[o]["stained"].active)
                                    # w1.st[o]["stained"].active
                              THEN @ \cup {<<o, "stained">>} ELSE @],
               o, tools, k + 1)

Stained_update(w, o) ==
    IF ~w.st[o]["stained"].value THEN w
    ELSE LET w1 == IF w.st[o]["stained"].loaded THEN w
                   ELSE [import_particle_system(w, o, 1) EXCEPT
                            !.st[o]["stained"].loaded = TRUE,
                            !.st[o]["stained"].num = NumParticles]
             w2 == IF ~w1.st[o]["stained"].prev_value
                   THEN [w1 EXCEPT !.st[o]["stained"].active = AllParticles]
                   ELSE w1
             w3 == StainedSweep(w2, o,
                      WetTools(w2, get_objects_with_state(w2, "CleaningTool"), 1), 1)
         IN IF w3.raised THEN w3
            ELSE [w3 EXCEPT
                    !.st[o]["stained"].prev_value = w3.st[o]["stained"].value,
                    !.st[o]["stained"].value =
                        AboveThreshold(w3.st[o]["stained"].active,
                                       w3.st[o]["stained"].num)]

(***************************************************************************)
(* Simulator._non_physics_step, step, step_vr                               *)
(***************************************************************************)
\* a variant in which the hook of a cacheable state removes the state from
\* the object's map
UpdateHookDropping(w, name, o) ==
    LET cls == w.st[o][name].cls
    IN CASE cls = "Dirty" -> Dirty_update(w, o)
         [] cls = "Stained" -> Stained_update(w, o)
         [] cls \in CachedClasses ->
                [w EXCEPT !.st[o] = [k \in DOMAIN @ \ {name} |-> @[k]]]
         [] OTHER -> w

\* obj.states[state_name].update(self), line 710
UpdateHook(w, name, o) ==
    LET cls == w.st[o][name].cls
    IN CASE cls = "Dirty" -> Dirty_update(w, o)
         [] cls = "Stained" -> Stained_update(w, o)
         [] cls \in CachedClasses ->
                [w EXCEPT !.st[o][name] = clear_cached_value(@)]
         [] OTHER -> w

\* a dependency of `name` that some scene object carries and whose hook has
\* not run on that object in this pass
UnmetDependency(w, name) ==
    \E d \in Range(Dependencies(cfg)[name]) :
        \E n \in RegisteredAs(cfg, d) :
            \E k \in DOMAIN w.by_name :
                /\ n \in DOMAIN w.st[w.by_name[k]]
                /\ <<n, w.by_name[k]>> \notin w.tk.hooked

Observe(w, name, o) ==
    [w EXCEPT
        !.tk.unmetDependency = @ \/ UnmetDependency(w, name),
        !.tk.invalidatedLate = @ \/
            (/\ w.st[o][name].cls \in CachedClasses
             /\ \E h \in w.tk.hooked : cfg.cls[h[1]] \in {"Dirty", "Stained"}),
        !.tk.hooked = @ \cup {<<name, o>>},
        !.tk.hookCalls = @ + 1]

\* a variant of the loop that leaves it after the first update
RECURSIVE InnerLoopFirstOnly(_, _, _, _)
InnerLoopFirstOnly(w, name, objs, k) ==
    IF k > Len(objs) \/ w.raised THEN w
    ELSE IF name \in DOMAIN w.st[objs[k]]
         THEN UpdateHook(Observe(w, name, objs[k]), name, objs[k])
         ELSE InnerLoopFirstOnly(w, name, objs, k + 1)

\* lines 708-710 for one state_name: the loop over the list get_objects()
\* returned when the loop started
RECURSIVE InnerLoop(_, _, _, _)
InnerLoop(w, name, objs, k) ==
    IF k > Len(objs) \/ w.raised THEN w
    ELSE IF name \in DOMAIN w.st[objs[k]]
         THEN InnerLoop(UpdateHook(Observe(w, name, objs[k]), name, objs[k]),
                        name, objs, k + 1)
         ELSE InnerLoop(w, name, objs, k + 1)

\* _non_physics_step, lines 707-710: for each state name, the loop over
\* the list get_objects() returns when that loop starts
RECURSIVE non_physics_step(_, _, _)
non_physics_step(w, names, i) ==
    IF i > Len(names) \/ w.raised THEN w
    ELSE LET objs == get_objects(w)
             seen == [w EXCEPT !.tk.observedAdded =
                                   @ \/ (Range(objs) \cap w.tk.added # {})]
         IN non_physics_step(InnerLoop(seen, names[i], objs, 1), names, i + 1)

\* p.stepSimulation(): every value cached so far dates from before it
stepSimulation(st) ==
    [o \in DOMAIN st |->
        [n \in DOMAIN st[o] |->
            IF st[o][n].cls \in CachedClasses /\ st[o][n].valid
            THEN [st[o][n] EXCEPT !.old = TRUE] ELSE st[o][n]]]

\* the number of iterations of the substep loop of step (line 799-800) and
\* step_vr (line 729)
physics_timestep_num == 1..MaxSubsteps

\* the substep loop (step 801-803, step_vr 730-732): each iteration is
\* p.stepSimulation() and then self._non_physics_step()
RECURSIVE SubstepLoop(_, _)
SubstepLoop(w, n) ==
    IF n = 0 \/ w.raised THEN w
    ELSE LET start == [w EXCEPT
                          !.st = stepSimulation(@),
                          !.tk.physicsAfterPass = @ \/ w.tk.passes > 0,
                          !.tk.hooked = {}, !.tk.hookCalls = 0,
                          !.tk.added = {}]
             done == non_physics_step(start, object_state_names, 1)
         IN SubstepLoop([done EXCEPT !.tk.passes = @ + 1], n - 1)

\* Simulator.step / step_vr: the substep loop, then self.sync()
Step ==
    /\ Idle /\ initPc = "ready"
    /\ \E n \in physics_timestep_num :
         \E w \in {SubstepLoop([World EXCEPT !.tk = NewTick], n)} :
            /\ objStates' = w.st
            /\ objects_by_name' = w.by_name
            /\ objects_by_state' = w.by_state
            /\ tick' = [w.tk EXCEPT !.added = {},
                                    !.syncs = IF w.raised THEN 0 ELSE 1]
            /\ result' = IF w.raised THEN "KeyError" ELSE "none"
    /\ UNCHANGED <<queryVars, cfg, initVars, prep, place>>

(***************************************************************************)
(* State calls made between steps                                           *)
(***************************************************************************)
\* get_value of a cacheable state of a scene object
GetValue(o, name) ==
    /\ Idle
    /\ PyIn(o, objects_by_name)
    /\ name \in DOMAIN objStates[o]
    /\ objStates[o][name].cls \in CachedClasses
    /\ \E w \in {ReadCached([World EXCEPT !.tk = NewTick], o, name)} :
          /\ objStates' = w.st
          /\ tick' = w.tk
    /\ result' = "none"
    /\ UNCHANGED <<queryVars, cfg, initVars, prep, sceneVars>>

set_value(inst, new_value) ==
    CASE inst.cls = "ContactBodies" -> ContactBodies_set_value(inst, new_value)
      [] inst.cls = "Dirty" -> Dirty_set_value(inst, new_value)
      [] inst.cls = "Stained" -> Stained_set_value(inst, new_value)

\* set_value of a state of a scene object
SetValue(o, name) ==
    /\ Idle
    /\ PyIn(o, objects_by_name)
    /\ name \in DOMAIN objStates[o]
    /\ objStates[o][name].cls \in {"ContactBodies", "Dirty", "Stained"}
    /\ \E new_value \in BOOLEAN :
         \E r \in {set_value(objStates[o][name], new_value)} :
            /\ objStates' = [objStates EXCEPT ![o][name] = r.inst]
            /\ result' = r.result
    /\ tick' = NewTick
    /\ UNCHANGED <<queryVars, cfg, initVars, prep, sceneVars>>

NextSim ==
    \/ SimulatorInit \/ TopoYield \/ TopoDone \/ TopoFail
    \/ \E o \in Objs : ConstructObject(o)
    \/ \E o \in Objs : AddObject(o)
    \/ Step
    \/ \E o \in Objs, name \in StateNames : GetValue(o, name)
    \/ \E o \in Objs, name \in StateNames : SetValue(o, name)

SpecSim == InitWith(SimConfigs) /\ [][NextSim]_vars

\* the same program with the registry of the stain states
NextStain ==
    \/ SimulatorInit \/ TopoYield \/ TopoDone
    \/ \E o \in Objs : ConstructObject(o)
    \/ \E o \in Objs : AddObject(o)
    \/ Step
    \/ \E o \in Objs, name \in StateNames : SetValue(o, name)

SpecStain == InitWith(StainConfigs) /\ [][NextStain]_vars

\* Soaked.set_value
Soaked_set_value(inst, new_value) ==
    [result |-> "none", inst |-> [inst EXCEPT !.value = new_value]]

SetSoaked(o) ==
    /\ Idle
    /\ PyIn(o, objects_by_name)
    /\ "soaked" \in DOMAIN objStates[o]
    /\ \E new_value \in BOOLEAN :
         \E r \in {Soaked_set_value(objStates[o]["soaked"], new_value)} :
            /\ objStates' = [objStates EXCEPT ![o]["soaked"] = r.inst]
            /\ result' = r.result
    /\ tick' = NewTick
    /\ UNCHANGED <<queryVars, cfg, initVars, prep, sceneVars>>

\* the whole registry: an object that can be soiled and a cleaner
NextClean ==
    \/ SimulatorInitSorted
    \/ ConstructSoiled \/ ConstructTool
    \/ \E o \in Objs : AddObjectNear(o)
    \/ Step
    \/ \E o \in Objs, name \in {"dirty", "stained"} : SetValue(o, name)
    \/ \E o \in Objs : SetSoaked(o)

SpecClean == InitWith(CleanConfigs) /\ [][NextClean]_vars

(***************************************************************************)
(* Inside.get_value, lines 27-35, on the boxes it has read.  Coordinates    *)
(* are integers; a centre is kept as twice its coordinates.                 *)
(***************************************************************************)
get_aabb_center2(aabb) == [a \in 1..3 |-> aabb.lo[a] + aabb.hi[a]]
get_aabb_extent(aabb) == [a \in 1..3 |-> aabb.hi[a] - aabb.lo[a]]
get_aabb_volume(aabb) ==
    get_aabb_extent(aabb)[1] * get_aabb_extent(aabb)[2] * get_aabb_extent(aabb)[3]

\* np.less_equal(lower, point).all() and np.less_equal(point, upper).all()
aabb_contains_point2(point2, aabb) ==
    \A a \in 1..3 : 2 * aabb.lo[a] <= point2[a] /\ point2[a] <= 2 * aabb.hi[a]

\* a variant that does not ask for the centre in the first disjunct
Inside_get_value_uncentred(boxA, boxB) ==
    LET center_inside == aabb_contains_point2(get_aabb_center2(boxA), boxB)
        volume_lesser == get_aabb_volume(boxA) < get_aabb_volume(boxB)
        two_dimensions_lesser ==
            Cardinality({a \in 1..3 :
                get_aabb_extent(boxA)[a] <= get_aabb_extent(boxB)[a]}) >= 2
        above == center_inside /\ boxB.hi[3] <= boxA.lo[3]
    IN (volume_lesser /\ two_dimensions_lesser) \/ above

\* lines 30-35
Inside_get_value(boxA, boxB) ==
    LET center_inside == aabb_contains_point2(get_aabb_center2(boxA), boxB)
        volume_lesser == get_aabb_volume(boxA) < get_aabb_volume(boxB)
        two_dimensions_lesser ==
            Cardinality({a \in 1..3 :
                get_aabb_extent(boxA)[a] <= get_aabb_extent(boxB)[a]}) >= 2
        above == center_inside /\ boxB.hi[3] <= boxA.lo[3]
    IN (center_inside /\ volume_lesser /\ two_dimensions_lesser) \/ above

\* the boxes the query is asked about: corners on a grid, every extent
\* positive; B has a square footprint
Intervals == {iv \in (0..MaxCoord) \X (0..MaxCoord) : iv[1] < iv[2]}
BoxOf(x, y, z) == [lo |-> <<x[1], y[1], z[1]>>, hi |-> <<x[2], y[2], z[2]>>]
BoxInputsA == {BoxOf(x, y, z) : x \in Intervals, y \in Intervals, z \in Intervals}
BoxInputsB == {BoxOf(x, x, z) : x \in Intervals, z \in Intervals}

(***************************************************************************)
(* Inside.set_value / get_value on scene objects                            *)
(***************************************************************************)
\* what one placement attempt draws: a pose, and whether the object is free
\* of interpenetration there
Draws == [pose : PlacePoses, free : BOOLEAN]

\* a variant that leaves the object at the last pose tried
RECURSIVE sample_kinematics_unrestored(_, _, _, _, _)
sample_kinematics_unrestored(draws, i, boxB, new_value, prior) ==
    IF i > Len(draws)
    THEN [success |-> FALSE, pose |-> draws[Len(draws)].pose, tried |-> i - 1]
    ELSE IF draws[i].free
            /\ Inside_get_value(Places[draws[i].pose], boxB) = new_value
         THEN [success |-> TRUE, pose |-> draws[i].pose, tried |-> i]
         ELSE sample_kinematics_unrestored(draws, i + 1, boxB, new_value, prior)

\* sample_kinematics('inside', objA, objB, new_value): the attempts in
\* turn, the first that satisfies the relation and is free succeeds; when
\* the attempts are used up the prior pose is restored
RECURSIVE sample_kinematics(_, _, _, _, _)
sample_kinematics(draws, i, boxB, new_value, prior) ==
    IF i > Len(draws)
    THEN [success |-> FALSE, pose |-> prior, tried |-> i - 1]
    ELSE IF draws[i].free
            /\ Inside_get_value(Places[draws[i].pose], boxB) = new_value
         THEN [success |-> TRUE, pose |-> draws[i].pose, tried |-> i]
         ELSE sample_kinematics(draws, i + 1, boxB, new_value, prior)

\* a variant that clears nothing
clear_cached_states_skipped(states) == states

\* clear_cached_states(obj): every cacheable state of the object
clear_cached_states(states) ==
    [n \in DOMAIN states |->
        IF states[n].cls \in CachedClasses THEN clear_cached_value(states[n])
        ELSE states[n]]

\* Inside.get_value(other), lines 21-35: the asserts look the class object
\* AABB up in the state maps
Inside_get_value_call(statesA, statesB, boxA, boxB) ==
    IF "AABB" \notin DOMAIN statesA \/ "AABB" \notin DOMAIN statesB
    THEN [result |-> "AssertionError", value |-> FALSE]
    ELSE [result |-> "none", value |-> Inside_get_value(boxA, boxB)]

\* Inside.set_value(other, new_value), lines 11-18
InsideSetValue(o, other) ==
    /\ Idle /\ initPc = "ready"
    /\ o # other /\ PyIn(o, objects_by_name) /\ PyIn(other, objects_by_name)
    /\ "inside" \in DOMAIN objStates[o]
    /\ \E new_value \in BOOLEAN, draws \in [1..MaxAttempts -> Draws] :
         \E s \in {sample_kinematics(draws, 1, Places[place[other]], new_value,
                                     place[o])} :
            /\ place' = [place EXCEPT ![o] = s.pose]
            /\ IF s.success
               THEN \E g \in {Inside_get_value_call(objStates[o], objStates[other],
                                    Places[s.pose], Places[place[other]])} :
                      /\ objStates' = [objStates EXCEPT
                                          ![o] = clear_cached_states(@),
                                          ![other] = clear_cached_states(@)]
                      /\ result' = IF g.result # "none" THEN g.result
                                   ELSE IF g.value # new_value THEN "AssertionError"
                                   ELSE "none"
                      /\ tick' = [NewTick EXCEPT !.call =
                                     [op |-> "set_value", new_value |-> new_value,
                                      sampled |-> TRUE, tried |-> s.tried,
                                      returned |-> IF g.result = "none"
                                                      /\ g.value = new_value
                                                   THEN "True" ELSE "unset"]]
               ELSE /\ objStates' = objStates
                    /\ result' = "none"
                    /\ tick' = [NewTick EXCEPT !.call =
                                   [op |-> "set_value", new_value |-> new_value,
                                    sampled |-> FALSE, tried |-> s.tried,
                                    returned |-> "False"]]
    /\ UNCHANGED <<queryVars, cfg, initVars, prep, objects_by_name,
                   objects_by_state>>

\* Inside.get_value(other) called between steps
InsideGetValue(o, other) ==
    /\ Idle /\ initPc = "ready"
    /\ o # other /\ PyIn(o, objects_by_name) /\ PyIn(other, objects_by_name)
    /\ "inside" \in DOMAIN objStates[o]
    /\ \E g \in {Inside_get_value_call(objStates[o], objStates[other],
                        Places[place[o]], Places[place[other]])} :
          /\ result' = g.result
          /\ tick' = [NewTick EXCEPT !.call =
                         [op |-> "get_value", new_value |-> FALSE,
                          sampled |-> FALSE, tried |-> 0,
                          returned |-> IF g.result # "none" THEN "unset"
                                       ELSE IF g.value THEN "True" ELSE "False"]]
    /\ UNCHANGED <<queryVars, cfg, initVars, objStates, prep, sceneVars>>

PlaceConfigs == {KinematicConfig}

NextPlace ==
    \/ SimulatorInit \/ TopoYield \/ TopoDone
    \/ \E o \in Objs : ConstructObject(o)
    \/ \E o \in Objs : AddObjectAnywhere(o)
    \/ Step
    \/ \E o \in Objs, name \in StateNames : GetValue(o, name)
    \/ \E o, other \in Objs : InsideSetValue(o, other)
    \/ \E o, other \in Objs : InsideGetValue(o, other)

SpecPlace == InitWith(PlaceConfigs) /\ [][NextPlace]_vars

InitInside ==
    /\ InitState({KinematicConfig})
    /\ aabbA \in BoxInputsA /\ aabbB \in BoxInputsB
    /\ inside_value = "unset"
    /\ inflated = NoBox

\* the predicate is evaluated on the two boxes
InsideQuery ==
    /\ inside_value = "unset"
    /\ inside_value' = IF Inside_get_value(aabbA, aabbB) THEN "True" ELSE "False"
    /\ UNCHANGED <<aabbA, aabbB, inflated, cfg, initVars, objStates, prep,
                   sceneVars, tick, result>>

NextInside == InsideQuery

SpecInside == InitInside /\ [][NextInside]_vars

(***************************************************************************)
(* The inflation of a cleaner's box, on boxes whose bounds are multiples   *)
(* of 0.1 (100 in 1/1000 units), so that a tenth of an extent is exact      *)
(***************************************************************************)
CleanerBoxInputs ==
    {[lo |-> [a \in 1..3 |-> 100 * b.lo[a]], hi |-> [a \in 1..3 |-> 100 * b.hi[a]]] :
        b \in BoxInputsA}

InitInflate ==
    /\ InitState({ParticleConfig})
    /\ aabbA \in CleanerBoxInputs /\ aabbB = NoBox
    /\ inside_value = "unset"
    /\ inflated = NoBox

\* lines 34-48 of Dirty.update (51-65 of Stained.update) on the cleaner's box
InflateQuery ==
    /\ inflated = NoBox
    /\ inflated' = InflatedBox(aabbA)
    /\ UNCHANGED <<aabbA, aabbB, inside_value, cfg, initVars, objStates, prep,
                   sceneVars, tick, result>>

NextInflate == InflateQuery

SpecInflate == InitInflate /\ [][NextInflate]_vars

NextOrder == SimulatorInit \/ TopoYield \/ TopoDone \/ TopoFail

SpecOrder == InitWith(OrderConfigs) /\ [][NextOrder]_vars

NextPrepare ==
    \E o \in Objs : ConstructObject(o) \/ PrepareAgain(o)

SpecPrepare == InitWith(PrepareConfigs) /\ [][NextPrepare]_vars

\* the factory functions called on their own
NextFactory ==
    \/ \E o \in Objs : ConstructObject(o) \/ PrepareOffline(o)
    \/ \E state_name \in LookupNames, online \in BOOLEAN :
          LookupState(state_name, online)
    \/ \E ability \in LookupAbilities : LookupAbility(ability)

SpecFactory == InitWith(FactoryConfigs) /\ [][NextFactory]_vars

(***************************************************************************)
(* Properties                                                               *)
(***************************************************************************)
\* C1: in the list get_states_by_dependency_order returns, every registered
\* state that a registered state S declares as a required or optional
\* dependency stands strictly before S.
C1_DependencyBeforeDependent ==
    initPc = "ready" =>
        \A S \in cfg.names : \A d \in Range(Dependencies(cfg)[S]) :
            \A D \in RegisteredAs(cfg, d) :
                \E i, j \in DOMAIN object_state_names :
                    /\ i < j
                    /\ object_state_names[i] = D
                    /\ object_state_names[j] = S

\* C2: with a cyclic registry the order is never built or stored, and no
\* prepare_object_states call completes unless the cyclic-dependency error
\* has been raised.
C2_CyclicRegistryRejected ==
    HasCycle(cfg) =>
        /\ initPc # "ready"
        /\ object_state_names = <<>>
        /\ \A o \in Objs : prep[o].calls > 0 => initPc = "error"

\* C3: every prepare_object_states call returns, and obj.states then holds
\* every default state, every state of each ability passed, and, with each
\* state it holds, the registered state of each of its required
\* dependencies.
C3_PreparedStatesClosed ==
    \A o \in Objs :
        prep[o].calls > 0 =>
            /\ prep[o].status = "ok"
            /\ cfg.defaults \subseteq DOMAIN objStates[o]
            /\ \A a \in prep[o].abilities :
                  Range(ABILITY_TO_STATE_MAPPING[a]) \subseteq DOMAIN objStates[o]
            /\ \A n \in DOMAIN objStates[o] : \A d \in Range(cfg.req[n]) :
                  /\ RegisteredAs(cfg, d) # {}
                  /\ RegisteredAs(cfg, d) \subseteq DOMAIN objStates[o]

\* C4: when prepare_object_states is called a second time on an object with
\* the abilities of the previous call and returns, the previous call had
\* returned too, and the key set of obj.states after the second call equals
\* the key set after the first.
C4_PrepareIdempotent ==
    \A o \in Objs :
        (/\ prep[o].calls >= 2
         /\ prep[o].abilities = prep[o].prevAbilities
         /\ prep[o].status = "ok") =>
            /\ DOMAIN objStates[o] = prep[o].prevKeys
            /\ prep[o].prevStatus = "ok"

\* C4, reached: a second call with the same non-empty abilities has returned
C4_Witness ==
    \E o \in Objs :
        /\ prep[o].calls >= 2
        /\ prep[o].abilities = prep[o].prevAbilities
        /\ prep[o].abilities # {}
        /\ prep[o].status = "ok"
        /\ Cardinality(DOMAIN objStates[o]) >= 2

\* C5: a completed step (its sync has run) ran exactly one scheduler pass,
\* and no physics substep followed a scheduler pass.
C5_OnePassAfterPhysics ==
    tick.syncs = 1 => (tick.passes = 1 /\ ~tick.physicsAfterPass)

\* C6: in a scheduler pass, when the update hook of a state S runs, the hook
\* of every dependency S declares has already run in this pass on every
\* scene object that carries it.
C6_DependenciesHookedFirst == ~tick.unmetDependency

\* C7: the object list a scheduler pass iterates never contains an object
\* that was added to the scene during that pass.
C7_AddedNotObserved == ~tick.observedAdded

\* C8: a get_value of a cacheable state whose cache is valid computes
\* nothing and returns the stored value; a get_value after an invalidation
\* computes the value again; and no get_value, by a caller or by an update
\* hook, returns a value computed before the last physics substep.
C8_CachedOncePerTick ==
    [][/\ ~tick'.staleRead
       /\ \A o \in Objs, name \in {"aabb", "contact_bodies"} :
            GetValue(o, name) =>
                IF objStates[o][name].valid
                THEN objStates' = objStates
                ELSE /\ objStates'[o][name].valid
                     /\ objStates'[o][name].cache = place[o]]_vars

\* C8, reached: a step has run in which the update hook of a dirty object
\* read the box of a cleaning tool, and the box it got was computed after
\* the physics substep
C8_Witness ==
    /\ tick.passes >= 1
    /\ \E o, t \in Objs :
          /\ PyIn(o, objects_by_name) /\ PyIn(t, objects_by_name)
          /\ "dirty" \in DOMAIN objStates[o]
          /\ "cleaning_tool" \in DOMAIN objStates[t]
          /\ objStates[t]["aabb"].valid
          /\ ~objStates[t]["aabb"].old

\* C9: set_value of contact_bodies always raises NotImplementedError and
\* leaves every state instance, cached value and validity as they were.
C9_SetValueUnsupported ==
    [][\A o \in Objs :
          SetValue(o, "contact_bodies") =>
              /\ result' = "NotImplementedError"
              /\ objStates' = objStates]_vars

\* C9, reached: set_value was refused on an object whose contact_bodies
\* cache holds a value
C9_Witness ==
    /\ result = "NotImplementedError"
    /\ \E o \in Objs :
          /\ PyIn(o, objects_by_name)
          /\ "contact_bodies" \in DOMAIN objStates[o]
          /\ objStates[o]["contact_bodies"].valid

\* C10: in a scheduler pass no cached state is invalidated after the update
\* hook of a computing state (Dirty, Stained) has run.
C10_InvalidationFirst == ~tick.invalidatedLate

InScene(o) == PyIn(o, objects_by_name)

\* the transition is a call of Simulator.step: only Step counts passes
StepTaken == tick'.passes > 0

\* C11: after every step that completes, the value of each Dirty state, and
\* of each Stained state that was active when the step began, is exactly
\* "the active particles are strictly more than nine tenths of the
\* particles": with nine tenths of them active the value is false.
C11_ThresholdStrict ==
    [][StepTaken /\ result' = "none" =>
         \A o \in Objs : InScene(o) =>
            /\ "dirty" \in DOMAIN objStates[o] =>
                   objStates'[o]["dirty"].value =
                      (10 * Cardinality(objStates'[o]["dirty"].active) > 9 * NumDust)
            /\ ("stained" \in DOMAIN objStates[o] /\ objStates[o]["stained"].value) =>
                   objStates'[o]["stained"].value =
                      (10 * Cardinality(objStates'[o]["stained"].active)
                          > 9 * NumParticles)]_vars

\* a step has left exactly nine tenths of the dust active, and the value false
C11_Witness ==
    /\ tick.passes > 0 /\ result = "none"
    /\ \E o \in Objs :
          /\ InScene(o) /\ "dirty" \in DOMAIN objStates[o]
          /\ 10 * Cardinality(objStates[o]["dirty"].active) = 9 * NumDust
          /\ ~objStates[o]["dirty"].value

\* the stain particles of o that the scene holds, with multiplicity
StainInScene(o, by_name) ==
    {k \in DOMAIN by_name : by_name[k] \in {StainParticle(o, j) : j \in AllParticles}}

Cleaners == {t \in Objs : InScene(t) /\ "cleaning_tool" \in DOMAIN objStates[t]}
SoakedCleaners ==
    {t \in Cleaners : "soaked" \in DOMAIN objStates[t] /\ objStates[t]["soaked"].value}

\* C13: set_value(true) and then one step without a qualifying cleaner
\* leave every particle active and the value true, whatever happened
\* before.  The state set_value(true) leaves is the one in which the value
\* is true (and, for Dirty, every dust particle is active); the step is
\* taken from any such state.
C13_ActivationFillsPopulation ==
    [][StepTaken /\ result' = "none" =>
         \A o \in Objs : InScene(o) =>
            /\ ( /\ "dirty" \in DOMAIN objStates[o]
                 /\ objStates[o]["dirty"].value
                 /\ objStates[o]["dirty"].active = DustParticles
                 /\ Cleaners = {} ) =>
                   /\ objStates'[o]["dirty"].value
                   /\ objStates'[o]["dirty"].active = DustParticles
            /\ ( /\ "stained" \in DOMAIN objStates[o]
                 /\ objStates[o]["stained"].value
                 /\ SoakedCleaners = {} ) =>
                   /\ objStates'[o]["stained"].value
                   /\ objStates'[o]["stained"].active = AllParticles]_vars

\* the cleaners whose inflated box holds every dust particle position
CoveringCleaners ==
    {t \in Cleaners :
        \A k \in DustParticles : InInflated(ParticlePos(k), Places[place[t]])}

\* C14: an object prepared with the ability dustable carries the default
\* states and dirty; from the state set_value(true) leaves (value true,
\* every dust particle active) a step without a cleaning tool in the scene
\* keeps the value true, and a step with a cleaning tool whose inflated box
\* holds every particle position makes it false.
C14_DustEndToEnd ==
    [][\A o \in Objs :
          /\ (prep'[o].status = "ok" /\ prep'[o].abilities = {"dustable"}) =>
                 cfg.defaults \cup {"dirty"} \subseteq DOMAIN objStates'[o]
          /\ ( /\ StepTaken /\ InScene(o)
               /\ prep[o].status = "ok" /\ prep[o].abilities = {"dustable"}
               /\ objStates[o]["dirty"].value
               /\ objStates[o]["dirty"].active = DustParticles ) =>
                 /\ Cleaners = {} => objStates'[o]["dirty"].value
                 /\ CoveringCleaners # {} => ~objStates'[o]["dirty"].value]_vars

\* a step in which a cleaning tool stashed the dust of a dustable object,
\* leaving it clean
C14_Witness ==
    \E o \in Objs :
        /\ InScene(o) /\ prep[o].status = "ok" /\ prep[o].abilities = {"dustable"}
        /\ <<o, "dirty">> \in tick.cleaned /\ CoveringCleaners # {}
        /\ ~objStates[o]["dirty"].value /\ result = "none"

\* the soaked cleaners whose inflated box holds every stain particle position
CoveringSoakedCleaners ==
    {t \in SoakedCleaners :
        \A k \in AllParticles : InInflated(ParticlePos(k), Places[place[t]])}

\* C15: for a Stained state that is active when a step begins, a cleaning
\* tool that is soaked and whose inflated box holds every stain particle
\* makes the value false in that step; when no cleaning tool of the scene
\* is soaked, the step deactivates no stain particle.
C15_SoakedCleanerRemovesStain ==
    [][StepTaken /\ result' = "none" =>
         \A o \in Objs :
            ( /\ InScene(o) /\ "stained" \in DOMAIN objStates[o]
              /\ objStates[o]["stained"].value ) =>
                 /\ CoveringSoakedCleaners # {} => ~objStates'[o]["stained"].value
                 /\ SoakedCleaners = {} => <<o, "stained">> \notin tick'.cleaned]_vars

\* C17: the predicate is true whenever the centre of A's box lies within
\* the x and y ranges of B's box and the bottom of A's box is at or above
\* the top of B's box (condition (b)); every box has non-zero height.
C17_AboveIsInside ==
    ( /\ inside_value # "unset"
      /\ \A a \in 1..2 : /\ 2 * aabbB.lo[a] <= aabbA.lo[a] + aabbA.hi[a]
                          /\ aabbA.lo[a] + aabbA.hi[a] <= 2 * aabbB.hi[a]
      /\ aabbA.lo[3] >= aabbB.hi[3] )
    => inside_value = "True"

C16_PlacedIsInside ==
    [][( /\ tick'.call.op = "set_value"
         /\ tick'.call.new_value
         /\ tick'.call.sampled ) =>
            /\ result' = "none"
            /\ tick'.call.returned = "True"]_vars

\* C19: Inside.set_value makes at most MaxAttempts placement attempts; when
\* none satisfies the relation it returns False, no exception is raised and
\* the object is at the pose it had before the call.
C19_FailureRestoresPose ==
    [][tick'.call.op = "set_value" =>
          /\ tick'.call.tried <= MaxAttempts
          /\ ~tick'.call.sampled =>
                /\ tick'.call.tried = MaxAttempts
                /\ tick'.call.returned = "False"
                /\ result' = "none"
                /\ place' = place
                /\ objStates' = objStates]_vars

\* set_value(other, True) has failed for an object that is not inside the
\* other one, after every attempt was made
C19_Witness ==
    /\ tick.call.op = "set_value" /\ tick.call.new_value /\ ~tick.call.sampled
    /\ tick.call.tried = MaxAttempts /\ tick.call.returned = "False"
    /\ \E o, other \in Objs :
          /\ o # other /\ InScene(o) /\ InScene(other)
          /\ ~Inside_get_value(Places[place[o]], Places[place[other]])
          /\ Inside_get_value(InnerBox, Places[place[other]])

\* C20: for one registry every run gets the same list from
\* get_states_by_dependency_order: the list a run stores is the one list of
\* its registry, whatever the order in which the names came out of the set.
C20_SameOrderEveryRun ==
    initPc = "ready" =>
        object_state_names = get_states_by_dependency_order(TopoSortFirst(cfg, <<>>))

\* C21: after prepare_object_states(obj, abilities, online=False) has
\* returned, every entry of obj.states is a DummyState.
C21_OfflineIsDummy ==
    \A o \in Objs :
        (prep[o].status = "ok" /\ ~prep[o].online) =>
            \A n \in DOMAIN objStates[o] : objStates[o][n].cls = "DummyState"

\* C22: get_object_state_instance of a name that is not registered raises
\* and returns no instance, online or offline; get_state_names_for_ability
\* of an ability that is not in the table raises.
C22_UnknownLookupsFail ==
    /\ (tick.call.op = "get_object_state_instance" /\ tick.call.arg \notin cfg.names)
          => (result = "AssertionError" /\ tick.call.returned = "unset")
    /\ (tick.call.op = "get_state_names_for_ability"
          /\ tick.call.arg \notin cfg.abilities)
          => (result = "KeyError" /\ tick.call.returned = "unset")

\* an offline lookup of an unregistered name has raised
C22_Witness ==
    /\ tick.call.op = "get_object_state_instance"
    /\ tick.call.arg \notin cfg.names /\ ~tick.call.online
    /\ result = "AssertionError"

\* C23: in one prepare_object_states call that returns, each state
\* identifier is instantiated once: the instantiations are as many as the
\* keys of obj.states, so no instance replaced an earlier one.
C23_InstantiatedOnce ==
    \A o \in Objs :
        prep[o].status = "ok" => prep[o].count = Cardinality(DOMAIN objStates[o])

RECURSIVE RequiredFrom(_, _)
RequiredFrom(c, S) ==
    LET next == S \cup UNION {Range(c.req[n]) : n \in S \cap c.names}
    IN IF next = S THEN S ELSE RequiredFrom(c, next)

\* C25: obj.states holds no state that is reachable only through optional
\* dependencies: every key is a default state, a state of one of the
\* abilities, or reached from those along required dependencies.
C25_OptionalNotAdded ==
    \A o \in Objs :
        prep[o].calls > 0 =>
            DOMAIN objStates[o] \subseteq
                RequiredFrom(cfg, cfg.defaults \cup
                    UNION {Range(ABILITY_TO_STATE_MAPPING[a]) : a \in prep[o].abilities})

\* a dustable object has been prepared in a registry that knows
\* cleaning_tool, and carries dirty without it
C25_Witness ==
    \E o \in Objs :
        /\ prep[o].status = "ok" /\ prep[o].abilities = {"dustable"}
        /\ "cleaning_tool" \in cfg.names
        /\ "dirty" \in DOMAIN objStates[o]
        /\ "cleaning_tool" \notin DOMAIN objStates[o]

\* the state instances of the scene's objects, as (state name, object)
SceneInstances(by_name, st) ==
    {<<n, by_name[k]>> : k \in DOMAIN by_name, n \in cfg.names} \cap
        {p \in cfg.names \X AllObjs : p[1] \in DOMAIN st[p[2]]}

\* C26: the list stored by Simulator.__init__ holds every registered state
\* name exactly once, and the last pass of a step that returns has called
\* the update hook of every state instance of every scene object exactly
\* once.
C26_EveryHookOnce ==
    [][/\ initPc' = "ready" =>
             \A n \in cfg.names :
                 Cardinality({i \in DOMAIN object_state_names' :
                                 object_state_names'[i] = n}) = 1
       /\ (StepTaken /\ result' = "none") =>
             /\ tick'.hooked = SceneInstances(objects_by_name', objStates')
             /\ tick'.hookCalls = Cardinality(tick'.hooked)]_vars

\* a step has returned on a scene of two objects that carry states, and
\* its last pass made more than two update calls
C26_Witness ==
    /\ tick.passes > 0 /\ result = "none"
    /\ \A o \in Objs : InScene(o) /\ DOMAIN objStates[o] # {}
    /\ tick.hookCalls > 2

\* C27: on each axis the box the sweep tests against is the cleaner's box
\* grown by a tenth of its extent on both sides:
\* [min - 0.1 (max - min), max + 0.1 (max - min)].
C27_InflationSymmetric ==
    inflated # NoBox =>
        \A a \in 1..3 :
            /\ 10 * inflated.lo[a] = 10 * aabbA.lo[a] - (aabbA.hi[a] - aabbA.lo[a])
            /\ 10 * inflated.hi[a] = 10 * aabbA.hi[a] + (aabbA.hi[a] - aabbA.lo[a])

\* the position lies, on all three axes, within the box grown by a tenth of
\* its extent on both sides
InGrownBox(pos, aabb) ==
    \A a \in 1..3 :
        /\ 10 * pos[a] > 10 * aabb.lo[a] - (aabb.hi[a] - aabb.lo[a])
        /\ 10 * pos[a] < 10 * aabb.hi[a] + (aabb.hi[a] - aabb.lo[a])

\* the particles of `particles` that lie in the grown box of one of `cleaners`
Covered(particles, cleaners) ==
    {k \in particles :
        \E t \in cleaners : InGrownBox(ParticlePos(k), Places[place[t]])}

\* C28: in a step of an active Dirty state, or of a Stained state that was
\* active in the step before too, the particles that were active and are
\* not any more are exactly those that lie in the grown box of a qualifying
\* cleaner (another scene object with cleaning_tool; soaked, for a stain),
\* and no inactive particle becomes active.
C28_SweptIffCovered ==
    [][StepTaken /\ result' = "none" =>
         \A o \in Objs : InScene(o) =>
            /\ ("dirty" \in DOMAIN objStates[o] /\ objStates[o]["dirty"].value) =>
                   objStates'[o]["dirty"].active =
                       objStates[o]["dirty"].active
                           \ Covered(DustParticles, Cleaners \ {o})
            /\ ( /\ "stained" \in DOMAIN objStates[o]
                 /\ objStates[o]["stained"].value
                 /\ objStates[o]["stained"].prev_value ) =>
                   objStates'[o]["stained"].active =
                       objStates[o]["stained"].active
                           \ Covered(AllParticles, SoakedCleaners \ {o})]_vars

\* C29: a step with no other cleaning tool in the scene deactivates no
\* particle of the Dirty or Stained state of an object, even when the
\* object itself carries cleaning_tool.
C29_OnlyOthersClean ==
    [][StepTaken /\ result' = "none" =>
         \A o \in Objs : InScene(o) =>
            \A n \in {"dirty", "stained"} :
                (n \in DOMAIN objStates[o] /\ Cleaners \ {o} = {}) =>
                    objStates[o][n].active \subseteq objStates'[o][n].active]_vars

\* C30: a step that begins with the value of a Dirty or Stained state false
\* changes no active flag of its particles and leaves the value false.
C30_InactiveUntouched ==
    [][StepTaken /\ result' = "none" =>
         \A o \in Objs : InScene(o) =>
            \A n \in {"dirty", "stained"} :
                (n \in DOMAIN objStates[o] /\ ~objStates[o][n].value) =>
                    /\ objStates'[o][n].active = objStates[o][n].active
                    /\ ~objStates'[o][n].value]_vars

\* C31: in every reachable state, set_value(false) on a Dirty or Stained
\* state returns without an exception, and leaves the value false, every
\* particle inactive and the number of particles as it was.
C31_SetFalseSucceeds ==
    \A o \in Objs :
        \A n \in {"dirty", "stained"} \cap DOMAIN objStates[o] :
            LET r == set_value(objStates[o][n], FALSE)
            IN /\ r.result = "none"
               /\ ~r.inst.value
               /\ r.inst.active = {}
               /\ r.inst.num = objStates[o][n].num

\* C32: a step never ends in an exception, and Inside.get_value called
\* between scene objects raises nothing; when the state map of one of them
\* lacks the key it looks up, it returns False.
C32_MissingDependencyTolerated ==
    /\ tick.passes > 0 => result = "none"
    /\ tick.call.op = "get_value" =>
          /\ result = "none"
          /\ (\E o \in Objs : InScene(o) /\ "AABB" \notin DOMAIN objStates[o])
                => tick.call.returned = "False"

\* C33: a call of Inside.set_value whose placement succeeded has cleared
\* every cached state of both objects; a call whose placement failed has
\* changed no state of either object and returns False without raising.
C33_ClearsOnSuccessOnly ==
    [][tick'.call.op = "set_value" =>
          IF tick'.call.sampled
          THEN \A o \in Objs :
                  \A n \in DOMAIN objStates[o] :
                      IF objStates[o][n].cls \in CachedClasses
                      THEN ~objStates'[o][n].valid
                      ELSE objStates'[o][n] = objStates[o][n]
          ELSE /\ objStates' = objStates
               /\ result' = "none"
               /\ tick'.call.returned = "False"]_vars

\* a call of Inside.set_value has failed to place the object, and cached
\* values of both objects are still valid
C33_Witness ==
    /\ tick.call.op = "set_value" /\ ~tick.call.sampled
    /\ tick.call.tried = MaxAttempts
    /\ \A o \in Objs : \E n \in DOMAIN objStates[o] :
          objStates[o][n].cls \in CachedClasses /\ objStates[o][n].valid

\* C34: for every identifier, a registered state name or a class object,
\* get_objects_with_state returns each scene object whose state map has
\* that key exactly once and no other object; it is empty for an
\* identifier that is no key of any state map.
C34_IndexMatchesStateMaps ==
    \A s \in StateNames \cup {"AABB", "CleaningTool", "Soaked"} :
        \A o \in AllObjs :
            Cardinality({k \in DOMAIN get_objects_with_state(World, s) :
                            get_objects_with_state(World, s)[k] = o})
                = IF InScene(o) /\ s \in DOMAIN objStates[o] THEN 1 ELSE 0

\* both objects are in the scene and listed under 'aabb', one of them under
\* 'cleaning_tool', and a step has imported stain particles after them
C34_Witness ==
    /\ Len(get_objects_with_state(World, "aabb")) = 2
    /\ Len(get_objects_with_state(World, "cleaning_tool")) = 1
    /\ get_objects_with_state(World, "CleaningTool") = <<>>
    /\ \E k \in DOMAIN objects_by_name : objects_by_name[k] \in ParticleObjs

\* C35: a step makes no inactive particle of a Dirty or Stained state
\* active, unless the state has been set true since its last update (value
\* true, prev_value false), and a value that is false when the step begins
\* is false when it ends.
C35_ActiveNeverGrows ==
    [][StepTaken /\ result' = "none" =>
         \A o \in Objs :
            \A n \in {"dirty", "stained"} \cap DOMAIN objStates[o] :
                (n = "stained" =>
                    ~(objStates[o][n].value /\ ~objStates[o][n].prev_value)) =>
                        /\ objStates'[o][n].active \subseteq objStates[o][n].active
                        /\ ~objStates[o][n].value => ~objStates'[o][n].value]_vars

\* a step that swept nothing has left false a Dirty state that an earlier
\* step made false by cleaning part of its dust, with a cleaner in the scene
C35_Witness ==
    /\ tick.passes > 0 /\ result = "none" /\ tick.cleaned = {}
    /\ \E o \in Objs :
          /\ InScene(o) /\ "dirty" \in DOMAIN objStates[o]
          /\ ~objStates[o]["dirty"].value
          /\ objStates[o]["dirty"].active \notin {{}, DustParticles}
          /\ Cleaners # {}

C37_KeysUnchangedByPass ==
    [][StepTaken =>
         \A o \in AllObjs : DOMAIN objStates'[o] = DOMAIN objStates[o]]_vars

\* a step of more than one pass has returned on a scene of two objects with
\* state maps, in which Dirty.update swept dust
C37_Witness ==
    /\ tick.passes > 1 /\ result = "none"
    /\ \A o \in Objs : InScene(o) /\ DOMAIN objStates[o] # {}
    /\ \E o \in Objs : <<o, "dirty">> \in tick.cleaned

\* C38: after a prepare_object_states call that raised, obj.states has
\* the keys it had before the call.
C38_FailedPrepareKeepsMap ==
    \A o \in Objs :
        prep[o].status = "error" => DOMAIN objStates[o] = prep[o].prevKeys

\* no registered state is reached from its own required dependencies
AcyclicRequired(c) ==
    \A n \in c.names : n \notin RequiredFrom(c, Range(c.req[n]))

\* C39: with a registry whose required dependencies have no cycle, a
\* prepare_object_states call ends, and when it returns it has made at most
\* as many instantiations as obj.states has keys.
C39_InstantiationsBounded ==
    AcyclicRequired(cfg) =>
        \A o \in Objs :
            /\ prep[o].status # "hang"
            /\ prep[o].status = "ok" =>
                   prep[o].count <= Cardinality(DOMAIN objStates[o])
====
